---- MODULE Spec2Model ----
(***************************************************************************)
(* Kitchen (an ArrayBag<Dish*> with prep-time / elaborate bookkeeping) and *)
(* the dietaryAccommodations transforms of Appetizer, MainCourse, Dessert. *)
(*                                                                         *)
(* Dish objects live on a heap: a pointer is an address in Addrs, `heap'   *)
(* gives the object stored at an address and `alive' the addresses that    *)
(* were returned by new and not yet passed to delete.  Dereferencing an    *)
(* address outside `alive' is undefined behaviour: the value read is any   *)
(* dish value, and `ub' records that it happened.                          *)
(***************************************************************************)
EXTENDS Integers, Sequences, FiniteSets, TLC

VARIABLES items_, item_count_, total_prep_time_, count_elaborate_,
          heap, alive, ub, last,
          probe, probe0, applied,
          file, adjusted

vars == <<items_, item_count_, total_prep_time_, count_elaborate_,
          heap, alive, ub, last, probe, probe0, applied, file, adjusted>>

dishVars == <<probe, probe0, applied>>

\* the record source a kitchen is constructed from, and the number of
\* dietaryAdjustment calls made so far
envVars == <<file, adjusted>>

----------------------------------------------------------------------------
(* Bounds *)

\* capacity of the bag's backing array
Capacity == 3
\* longest ingredient list of a dish handed to dietaryAccommodations
MaxLen == 4
\* longest ingredient list of a dish that goes through a sequence of
\* dietaryAccommodations calls
MaxSeqLen == 2

\* most dietaryAdjustment calls in one behaviour
MaxAdjust == 1

\* most records of a record source: more than the bag holds
MaxLines == 4

\* heap addresses a Dish can be allocated at: one more than the bag holds, so
\* that a dish can be created while the bag is full
Addrs == 1..(Capacity + 1)
Slots == 0..(Capacity - 1)

----------------------------------------------------------------------------
(* Dish values *)

\* a value of every variant carries the fields of all three; the fields of
\* the other variants stay at the neutral values given here
Appetizer(name, ingredients, prep_time, price, cuisine_type, serving_style, spiciness_level, vegetarian) ==
    [kind |-> "APPETIZER", name_ |-> name, ingredients_ |-> ingredients,
     prep_time_ |-> prep_time, price_ |-> price, cuisine_type_ |-> cuisine_type,
     serving_style_ |-> serving_style, spiciness_level_ |-> spiciness_level,
     vegetarian_ |-> vegetarian,
     cooking_method_ |-> "", protein_type_ |-> "", side_dishes_ |-> <<>>,
     gluten_free_ |-> FALSE,
     flavor_profile_ |-> "", sweetness_level_ |-> 0, contains_nuts_ |-> FALSE]

MainCourse(name, ingredients, prep_time, price, cuisine_type, cooking_method, protein_type, side_dishes, gluten_free) ==
    [kind |-> "MAINCOURSE", name_ |-> name, ingredients_ |-> ingredients,
     prep_time_ |-> prep_time, price_ |-> price, cuisine_type_ |-> cuisine_type,
     serving_style_ |-> "", spiciness_level_ |-> 0, vegetarian_ |-> FALSE,
     cooking_method_ |-> cooking_method, protein_type_ |-> protein_type,
     side_dishes_ |-> side_dishes, gluten_free_ |-> gluten_free,
     flavor_profile_ |-> "", sweetness_level_ |-> 0, contains_nuts_ |-> FALSE]

Dessert(name, ingredients, prep_time, price, cuisine_type, flavor_profile, sweetness_level, contains_nuts) ==
    [kind |-> "DESSERT", name_ |-> name, ingredients_ |-> ingredients,
     prep_time_ |-> prep_time, price_ |-> price, cuisine_type_ |-> cuisine_type,
     serving_style_ |-> "", spiciness_level_ |-> 0, vegetarian_ |-> FALSE,
     cooking_method_ |-> "", protein_type_ |-> "", side_dishes_ |-> <<>>,
     gluten_free_ |-> FALSE,
     flavor_profile_ |-> flavor_profile, sweetness_level_ |-> sweetness_level,
     contains_nuts_ |-> contains_nuts]

\* Dish::operator== : all shared attributes, the variant and its attributes
DishEq(a, b) == a = b

\* what an address holds before new and after delete
NoDish == [kind |-> "NONE"]

\* the dishes callers order in the kitchen specifications
Menu ==
    { Appetizer("Bruschetta", <<"Bread", "Tomato">>, 5, 650, "ITALIAN",
                "PLATED", 1, TRUE),
      MainCourse("Tacos", <<"Beef", "Cheese", "Corn", "Onion", "Salsa">>, 60,
                 1200, "MEXICAN", "GRILLED", "Beef", <<>>, FALSE),
      Dessert("Tiramisu", <<"Cream", "Eggs", "Coffee", "Cocoa", "Sugar">>, 59,
              800, "ITALIAN", "SWEET", 8, FALSE),
      MainCourse("Stew", <<"Lamb", "Carrot", "Onion", "Barley">>, 90,
                 1500, "MEXICAN", "BOILED", "Lamb", <<>>, FALSE) }

\* the dishes callers order in the report specification
ReportMenu ==
    { Appetizer("Soup", <<"Leek", "Potato">>, 10, 500, "FRENCH",
                "PLATED", 0, TRUE),
      Appetizer("Salad", <<"Lettuce">>, 20, 450, "AMERICAN",
                "BUFFET", 0, TRUE),
      Dessert("Sorbet", <<"Lemon", "Sugar">>, 21, 400, "FRENCH",
              "SOUR", 4, FALSE),
      MainCourse("Curry", <<"Chicken", "Onion", "Tomato", "Cream", "Rice">>,
                 75, 1400, "INDIAN", "BOILED", "Chicken", <<>>, TRUE) }

\* a dish a caller keeps and never hands to a kitchen
CallerDish ==
    Dessert("Flan", <<"Milk", "Eggs", "Sugar">>, 30, 700, "FRENCH",
            "SWEET", 6, FALSE)

\* the thresholds and cuisine strings callers pass to the release operations
Thresholds == {5, 60, 100}
Cuisines == {"ITALIAN", "MEXICAN", "OTHER"}

----------------------------------------------------------------------------
(* ArrayBag<Dish*> : the bag part of a kitchen k is k.items and k.n *)

\* the kitchen as one value, so that operations can be composed
Kitchen == [items |-> items_, n |-> item_count_, total |-> total_prep_time_,
            elab |-> count_elaborate_, heap |-> heap, alive |-> alive,
            ub |-> ub]

getCurrentSize(k) == k.n

\* index of the first slot in [0, n) holding the pointer p, or -1
getIndexOf(k, p) ==
    IF \E i \in 0..(k.n - 1) : k.items[i] = p
    THEN CHOOSE i \in 0..(k.n - 1) :
            /\ k.items[i] = p
            /\ \A j \in 0..(i - 1) : k.items[j] # p
    ELSE -1

\* add: fails on a full bag, otherwise stores p at index n
add(k, p) ==
    IF k.n < Capacity
    THEN [ok |-> TRUE, k |-> [k EXCEPT !.items[k.n] = p, !.n = k.n + 1]]
    ELSE [ok |-> FALSE, k |-> k]

\* remove: the first slot equal to p (pointer equality, the element type is
\* Dish*) is overwritten by the last element and the size decremented
remove(k, p) ==
    LET found_index == getIndexOf(k, p) IN
    IF k.n > 0 /\ found_index > -1
    THEN [ok |-> TRUE,
          k |-> [k EXCEPT !.items[found_index] = k.items[k.n - 1],
                          !.n = k.n - 1]]
    ELSE [ok |-> FALSE, k |-> k]

\* delete p : the object is destroyed, the address may be handed out again
delete(k, p) == [k EXCEPT !.alive = k.alive \ {p}, !.heap[p] = NoDish]

----------------------------------------------------------------------------
(* Kitchen *)

\* newOrder counting a dish as elaborate only above 60 minutes
newOrder_strictPrep(k, new_dish) ==
    LET r == add(k, new_dish)
        d == k.heap[new_dish]
    IN  IF r.ok
        THEN [ret |-> TRUE,
              k |-> [r.k EXCEPT
                       !.total = k.total + d.prep_time_,
                       !.elab = IF Len(d.ingredients_) >= 5 /\ d.prep_time_ > 60
                                THEN k.elab + 1 ELSE k.elab]]
        ELSE [ret |-> FALSE, k |-> k]

\* newOrder updating the prep-time total before looking at add's result
newOrder_countsRefused(k, new_dish) ==
    LET r == add(k, new_dish)
        d == k.heap[new_dish]
    IN  IF r.ok
        THEN [ret |-> TRUE,
              k |-> [r.k EXCEPT
                       !.total = k.total + d.prep_time_,
                       !.elab = IF Len(d.ingredients_) >= 5 /\ d.prep_time_ >= 60
                                THEN k.elab + 1 ELSE k.elab]]
        ELSE [ret |-> FALSE, k |-> [k EXCEPT !.total = k.total + d.prep_time_]]

\* Kitchen::newOrder(new_dish), new_dish pointing to a live dish
newOrder(k, new_dish) ==
    LET r == add(k, new_dish)
        d == k.heap[new_dish]
    IN  IF r.ok
        THEN [ret |-> TRUE,
              k |-> [r.k EXCEPT
                       !.total = k.total + d.prep_time_,
                       !.elab = IF Len(d.ingredients_) >= 5 /\ d.prep_time_ >= 60
                                THEN k.elab + 1 ELSE k.elab]]
        ELSE [ret |-> FALSE, k |-> k]

\* the serveDish loop keeping the last match instead of returning at the first
firstEqual_last(k, v) ==
    IF \E i \in 0..(k.n - 1) : DishEq(k.heap[k.items[i]], v)
    THEN CHOOSE i \in 0..(k.n - 1) :
            /\ DishEq(k.heap[k.items[i]], v)
            /\ \A j \in (i + 1)..(k.n - 1) : ~DishEq(k.heap[k.items[j]], v)
    ELSE -1

\* the serveDish loop matching on the cuisine type alone
firstEqual_byCuisine(k, v) ==
    IF \E i \in 0..(k.n - 1) : k.heap[k.items[i]].cuisine_type_ = v.cuisine_type_
    THEN CHOOSE i \in 0..(k.n - 1) :
            /\ k.heap[k.items[i]].cuisine_type_ = v.cuisine_type_
            /\ \A j \in 0..(i - 1) :
                  k.heap[k.items[j]].cuisine_type_ # v.cuisine_type_
    ELSE -1

\* the first index i in [0, n) with *items_[i] == v, or -1 (the loop of
\* serveDish; every slot below n holds a live dish while no undefined
\* behaviour has occurred)
firstEqual(k, v) ==
    IF \E i \in 0..(k.n - 1) : DishEq(k.heap[k.items[i]], v)
    THEN CHOOSE i \in 0..(k.n - 1) :
            /\ DishEq(k.heap[k.items[i]], v)
            /\ \A j \in 0..(i - 1) : ~DishEq(k.heap[k.items[j]], v)
    ELSE -1

\* serveDish without the subtraction from total_prep_time_
serveDish_keepsTotal(k, v) ==
    IF getCurrentSize(k) = 0 THEN [ret |-> FALSE, k |-> k]
    ELSE LET i == firstEqual(k, v) IN
         IF i = -1 THEN [ret |-> FALSE, k |-> k]
         ELSE LET p == k.items[i]
                  d == k.heap[p]
                  k1 == [k EXCEPT
                           !.elab = IF Len(d.ingredients_) >= 5 /\ d.prep_time_ >= 60
                                    THEN k.elab - 1 ELSE k.elab]
                  k2 == delete(k1, p)
              IN  [ret |-> TRUE, k |-> remove(k2, p).k]

\* serveDish lowering count_elaborate_ for every dish it removes
serveDish_alwaysDecrements(k, v) ==
    IF getCurrentSize(k) = 0 THEN [ret |-> FALSE, k |-> k]
    ELSE LET i == firstEqual(k, v) IN
         IF i = -1 THEN [ret |-> FALSE, k |-> k]
         ELSE LET p == k.items[i]
                  d == k.heap[p]
                  k1 == [k EXCEPT !.total = k.total - d.prep_time_,
                                  !.elab = k.elab - 1]
                  k2 == delete(k1, p)
              IN  [ret |-> TRUE, k |-> remove(k2, p).k]

\* serveDish removing the pointer first and destroying items_[i] afterwards
serveDish_deleteAfterRemove(k, v) ==
    IF getCurrentSize(k) = 0 THEN [ret |-> FALSE, k |-> k]
    ELSE LET i == firstEqual(k, v) IN
         IF i = -1 THEN [ret |-> FALSE, k |-> k]
         ELSE LET p == k.items[i]
                  d == k.heap[p]
                  k1 == [k EXCEPT
                           !.total = k.total - d.prep_time_,
                           !.elab = IF Len(d.ingredients_) >= 5 /\ d.prep_time_ >= 60
                                    THEN k.elab - 1 ELSE k.elab]
                  k2 == remove(k1, p).k
              IN  [ret |-> TRUE, k |-> delete(k2, k2.items[i])]

\* Kitchen::serveDish(dish_to_remove), v the value of *dish_to_remove
serveDish(k, v) ==
    IF getCurrentSize(k) = 0 THEN [ret |-> FALSE, k |-> k]
    ELSE LET i == firstEqual(k, v) IN
         IF i = -1 THEN [ret |-> FALSE, k |-> k]
         ELSE LET p == k.items[i]
                  d == k.heap[p]
                  k1 == [k EXCEPT
                           !.total = k.total - d.prep_time_,
                           !.elab = IF Len(d.ingredients_) >= 5 /\ d.prep_time_ >= 60
                                    THEN k.elab - 1 ELSE k.elab]
                  k2 == delete(k1, p)
              IN  [ret |-> TRUE, k |-> remove(k2, p).k]

\* Kitchen::tallyCuisineTypes
tallyCuisineTypes(k, cuisine_type) ==
    Cardinality({i \in 0..(k.n - 1) :
                    k.heap[k.items[i]].cuisine_type_ = cuisine_type})

\* round(a / n) for n > 0: the nearest integer, halves away from zero
RoundDiv(a, n) ==
    IF a >= 0 THEN (2 * a + n) \div (2 * n)
    ELSE 0 - ((2 * (0 - a) + n) \div (2 * n))

\* the loop of calculateAvgPrepTime: the local sum over the slots [0, i)
RECURSIVE avgLoop(_, _)
avgLoop(k, i) ==
    IF i = 0 THEN 0 ELSE avgLoop(k, i - 1) + k.heap[k.items[i - 1]].prep_time_

\* the average cut off by an integer division
calculateAvgPrepTime_truncates(k) ==
    IF getCurrentSize(k) = 0 THEN 0
    ELSE avgLoop(k, getCurrentSize(k)) \div getCurrentSize(k)

\* Kitchen::calculateAvgPrepTime
calculateAvgPrepTime(k) ==
    IF getCurrentSize(k) = 0 THEN 0
    ELSE RoundDiv(avgLoop(k, getCurrentSize(k)), getCurrentSize(k))

\* the percentage from the integer quotient count_elaborate_ / size
calculateElaboratePercentage_integerQuotient(k) ==
    IF getCurrentSize(k) = 0 \/ k.elab = 0 THEN 0
    ELSE 10000 * (k.elab \div getCurrentSize(k))

\* Kitchen::calculateElaboratePercentage; the result, a number with two
\* decimals, is given in hundredths of a percent
calculateElaboratePercentage(k) ==
    IF getCurrentSize(k) = 0 \/ k.elab = 0 THEN 0
    ELSE RoundDiv(k.elab * 10000, getCurrentSize(k))

\* the values a read through the pointer p can yield: the object when p is
\* live, any dish value when p dangles (use after delete)
Deref(k, p) == IF p \in k.alive THEN {k.heap[p]} ELSE Menu

\* the kitchen after a read through p
Touched(k, p) == IF p \in k.alive THEN k ELSE [k EXCEPT !.ub = TRUE]

\* Kitchen::releaseDishesBelowPrepTime: the loop from index i on, num being
\* the size read once before the loop; the set of possible outcomes
RECURSIVE belowLoop(_, _, _, _, _)
belowLoop(k, i, num, prep_time, count) ==
    IF i >= num THEN {[ret |-> count, k |-> k]}
    ELSE LET p == k.items[i]
             kt == Touched(k, p)
         IN  UNION { IF v.prep_time_ < prep_time
                     THEN belowLoop(serveDish(kt, v).k, i + 1, num,
                                    prep_time, count + 1)
                     ELSE belowLoop(kt, i + 1, num, prep_time, count)
                     : v \in Deref(k, p) }

releaseDishesBelowPrepTime(k, prep_time) ==
    belowLoop(k, 0, getCurrentSize(k), prep_time, 0)

\* Kitchen::releaseDishesOfCuisineType: the loop from index i on, the bound
\* being the size read again at every iteration
RECURSIVE cuisineLoop(_, _, _, _)
cuisineLoop(k, i, cuisine_type, count) ==
    IF i >= getCurrentSize(k) THEN {[ret |-> count, k |-> k]}
    ELSE LET p == k.items[i]
             kt == Touched(k, p)
         IN  UNION { IF v.cuisine_type_ = cuisine_type
                     THEN cuisineLoop(serveDish(kt, v).k, i + 1,
                                      cuisine_type, count + 1)
                     ELSE cuisineLoop(kt, i + 1, cuisine_type, count)
                     : v \in Deref(k, p) }

releaseDishesOfCuisineType(k, cuisine_type) ==
    cuisineLoop(k, 0, cuisine_type, 0)

----------------------------------------------------------------------------
(* Dietary accommodations *)

Requests == [vegetarian : BOOLEAN, vegan : BOOLEAN, gluten_free : BOOLEAN,
             nut_free : BOOLEAN, low_sodium : BOOLEAN, low_sugar : BOOLEAN]

\* the subtraction stored without the clamp at 0
Max_second(a, b) == b

Max(a, b) == IF a >= b THEN a ELSE b

AppetizerNonVegetarian ==
    {"Meat", "Chicken", "Fish", "Beef", "Pork", "Lamb", "Shrimp", "Bacon"}
AppetizerGlutenContaining ==
    {"Wheat", "Flour", "Bread", "Pasta", "Barley", "Rye", "Oats", "Crust"}

\* the vegetarian loop without the used_mushrooms test: every non-vegetarian
\* ingredient after the first becomes "Mushrooms"
RECURSIVE appetizerVegLoop_neverDrops(_, _, _, _, _)
appetizerVegLoop_neverDrops(ingredients, i, used_beans, used_mushrooms, new_ingredients) ==
    IF i > Len(ingredients) THEN new_ingredients
    ELSE IF ingredients[i] \in AppetizerNonVegetarian
         THEN IF ~used_beans
              THEN appetizerVegLoop_neverDrops(ingredients, i + 1, TRUE,
                        used_mushrooms, Append(new_ingredients, "Beans"))
              ELSE appetizerVegLoop_neverDrops(ingredients, i + 1, used_beans,
                        TRUE, Append(new_ingredients, "Mushrooms"))
         ELSE appetizerVegLoop_neverDrops(ingredients, i + 1, used_beans,
                   used_mushrooms, Append(new_ingredients, ingredients[i]))

\* the vegetarian loop leaving in place the non-vegetarian ingredients for
\* which no substitute is left
RECURSIVE appetizerVegLoop_keepsSurplus(_, _, _, _, _)
appetizerVegLoop_keepsSurplus(ingredients, i, used_beans, used_mushrooms, new_ingredients) ==
    IF i > Len(ingredients) THEN new_ingredients
    ELSE IF ingredients[i] \in AppetizerNonVegetarian /\ ~used_beans
         THEN appetizerVegLoop_keepsSurplus(ingredients, i + 1, TRUE,
                   used_mushrooms, Append(new_ingredients, "Beans"))
         ELSE IF ingredients[i] \in AppetizerNonVegetarian /\ ~used_mushrooms
         THEN appetizerVegLoop_keepsSurplus(ingredients, i + 1, used_beans,
                   TRUE, Append(new_ingredients, "Mushrooms"))
         ELSE appetizerVegLoop_keepsSurplus(ingredients, i + 1, used_beans,
                   used_mushrooms, Append(new_ingredients, ingredients[i]))

\* the vegetarian loop of Appetizer::dietaryAccommodations from position i on
RECURSIVE appetizerVegLoop(_, _, _, _, _)
appetizerVegLoop(ingredients, i, used_beans, used_mushrooms, new_ingredients) ==
    IF i > Len(ingredients) THEN new_ingredients
    ELSE IF ingredients[i] \in AppetizerNonVegetarian
         THEN IF ~used_beans
              THEN appetizerVegLoop(ingredients, i + 1, TRUE, used_mushrooms,
                                    Append(new_ingredients, "Beans"))
              ELSE IF ~used_mushrooms
                   THEN appetizerVegLoop(ingredients, i + 1, used_beans, TRUE,
                                         Append(new_ingredients, "Mushrooms"))
                   ELSE appetizerVegLoop(ingredients, i + 1, used_beans,
                                         used_mushrooms, new_ingredients)
         ELSE appetizerVegLoop(ingredients, i + 1, used_beans, used_mushrooms,
                               Append(new_ingredients, ingredients[i]))

\* Appetizer::dietaryAccommodations
AppetizerDietaryAccommodations(d, request) ==
    LET d1 == IF request.vegetarian
              THEN [d EXCEPT !.vegetarian_ = TRUE,
                             !.ingredients_ =
                                appetizerVegLoop(d.ingredients_, 1, FALSE,
                                                 FALSE, <<>>)]
              ELSE d
        d2 == IF request.low_sodium
              THEN [d1 EXCEPT !.spiciness_level_ =
                                 Max(0, d1.spiciness_level_ - 2)]
              ELSE d1
        d3 == IF request.gluten_free
              THEN [d2 EXCEPT !.ingredients_ =
                                 SelectSeq(d2.ingredients_,
                                    LAMBDA x : x \notin AppetizerGlutenContaining)]
              ELSE d2
    IN  d3

MainCourseNonVegetarian ==
    {"Meat", "Chicken", "Fish", "Beef", "Pork", "Lamb", "Shrimp", "Bacon"}
MainCourseDairyAndEggs ==
    {"Milk", "Eggs", "Cheese", "Butter", "Cream", "Yogurt"}
\* the category test without STARCHES
GlutenCategories_noStarches == {"GRAIN", "PASTA", "BREAD"}

GlutenCategories == {"GRAIN", "PASTA", "BREAD", "STARCHES"}

\* the vegetarian loop of MainCourse::dietaryAccommodations from position i on
RECURSIVE mainCourseVegLoop(_, _, _, _, _)
mainCourseVegLoop(ingredients, i, used_beans, used_mushrooms, new_ingredients) ==
    IF i > Len(ingredients) THEN new_ingredients
    ELSE IF ingredients[i] \in MainCourseNonVegetarian
         THEN IF ~used_beans
              THEN mainCourseVegLoop(ingredients, i + 1, TRUE, used_mushrooms,
                                     Append(new_ingredients, "Beans"))
              ELSE IF ~used_mushrooms
                   THEN mainCourseVegLoop(ingredients, i + 1, used_beans, TRUE,
                                          Append(new_ingredients, "Mushrooms"))
                   ELSE mainCourseVegLoop(ingredients, i + 1, used_beans,
                                          used_mushrooms, new_ingredients)
         ELSE mainCourseVegLoop(ingredients, i + 1, used_beans, used_mushrooms,
                                Append(new_ingredients, ingredients[i]))

\* the vegan pass reading the ingredients as they were before the call
MainCourseDietaryAccommodations_veganFromOriginal(d, request) ==
    LET d1 == IF request.vegetarian
              THEN [d EXCEPT !.protein_type_ = "Tofu",
                             !.ingredients_ =
                                mainCourseVegLoop(d.ingredients_, 1, FALSE,
                                                  FALSE, <<>>)]
              ELSE d
        d2 == IF request.vegan
              THEN [d1 EXCEPT !.protein_type_ = "Tofu",
                              !.ingredients_ =
                                 SelectSeq(d.ingredients_,
                                    LAMBDA x : x \notin MainCourseDairyAndEggs)]
              ELSE d1
        d3 == IF request.gluten_free
              THEN [d2 EXCEPT !.gluten_free_ = TRUE,
                              !.side_dishes_ =
                                 SelectSeq(d2.side_dishes_,
                                    LAMBDA side : side.category \notin GlutenCategories)]
              ELSE d2
    IN  d3

\* MainCourse::dietaryAccommodations
MainCourseDietaryAccommodations(d, request) ==
    LET d1 == IF request.vegetarian
              THEN [d EXCEPT !.protein_type_ = "Tofu",
                             !.ingredients_ =
                                mainCourseVegLoop(d.ingredients_, 1, FALSE,
                                                  FALSE, <<>>)]
              ELSE d
        d2 == IF request.vegan
              THEN [d1 EXCEPT !.protein_type_ = "Tofu",
                              !.ingredients_ =
                                 SelectSeq(d1.ingredients_,
                                    LAMBDA x : x \notin MainCourseDairyAndEggs)]
              ELSE d1
        d3 == IF request.gluten_free
              THEN [d2 EXCEPT !.gluten_free_ = TRUE,
                              !.side_dishes_ =
                                 SelectSeq(d2.side_dishes_,
                                    LAMBDA side : side.category \notin GlutenCategories)]
              ELSE d2
    IN  d3

DessertNuts ==
    {"Almonds", "Walnuts", "Pecans", "Hazelnuts", "Peanuts", "Cashews",
     "Pistachios"}
DessertDairyAndEggs ==
    {"Milk", "Eggs", "Cheese", "Butter", "Cream", "Yogurt"}

\* the vegan loop handing out "Flax Egg" first and "Almond Milk" second
RECURSIVE dessertVeganLoop_swapped(_, _, _, _, _)
dessertVeganLoop_swapped(source, i, used_first_replacement, used_second_replacement, new_ingredients) ==
    IF i > Len(source) THEN new_ingredients
    ELSE IF source[i] \in DessertDairyAndEggs
         THEN IF ~used_first_replacement
              THEN dessertVeganLoop_swapped(source, i + 1, TRUE,
                                    used_second_replacement,
                                    Append(new_ingredients, "Flax Egg"))
              ELSE IF ~used_second_replacement
                   THEN dessertVeganLoop_swapped(source, i + 1,
                                         used_first_replacement, TRUE,
                                         Append(new_ingredients, "Almond Milk"))
                   ELSE dessertVeganLoop_swapped(source, i + 1,
                                         used_first_replacement,
                                         used_second_replacement,
                                         new_ingredients)
         ELSE dessertVeganLoop_swapped(source, i + 1, used_first_replacement,
                               used_second_replacement,
                               Append(new_ingredients, source[i]))

\* the vegan loop of Dessert::dietaryAccommodations over the vector source,
\* from position i on
RECURSIVE dessertVeganLoop(_, _, _, _, _)
dessertVeganLoop(source, i, used_first_replacement, used_second_replacement, new_ingredients) ==
    IF i > Len(source) THEN new_ingredients
    ELSE IF source[i] \in DessertDairyAndEggs
         THEN IF ~used_first_replacement
              THEN dessertVeganLoop(source, i + 1, TRUE,
                                    used_second_replacement,
                                    Append(new_ingredients, "Almond Milk"))
              ELSE IF ~used_second_replacement
                   THEN dessertVeganLoop(source, i + 1,
                                         used_first_replacement, TRUE,
                                         Append(new_ingredients, "Flax Egg"))
                   ELSE dessertVeganLoop(source, i + 1,
                                         used_first_replacement,
                                         used_second_replacement,
                                         new_ingredients)
         ELSE dessertVeganLoop(source, i + 1, used_first_replacement,
                               used_second_replacement,
                               Append(new_ingredients, source[i]))

\* the vector the vegan loop of Dessert::dietaryAccommodations ranges over:
\* new_ingredients, which the line before has cleared, when the nut-free
\* pass has run, current_ingredients otherwise
dessertVeganSource(need_update, cleared_new_ingredients, current_ingredients) ==
    IF need_update THEN cleared_new_ingredients ELSE current_ingredients

\* Dessert::dietaryAccommodations storing new_ingredients whether or not a
\* pass has filled it
DessertDietaryAccommodations_alwaysUpdates(d, request) ==
    LET current_ingredients == d.ingredients_
        new1 == IF request.nut_free
                THEN SelectSeq(current_ingredients,
                               LAMBDA x : x \notin DessertNuts)
                ELSE <<>>
        need1 == request.nut_free
        d1 == IF request.nut_free THEN [d EXCEPT !.contains_nuts_ = FALSE]
              ELSE d
        d2 == IF request.low_sugar
              THEN [d1 EXCEPT !.sweetness_level_ =
                                 Max(0, d1.sweetness_level_ - 3)]
              ELSE d1
        new3 == IF request.vegan
                THEN dessertVeganLoop(
                        dessertVeganSource(need1, <<>>, current_ingredients),
                        1, FALSE, FALSE, <<>>)
                ELSE new1
    IN  [d2 EXCEPT !.ingredients_ = new3]

\* Dessert::dietaryAccommodations
DessertDietaryAccommodations(d, request) ==
    LET current_ingredients == d.ingredients_
        \* after the nut_free block
        new1 == IF request.nut_free
                THEN SelectSeq(current_ingredients,
                               LAMBDA x : x \notin DessertNuts)
                ELSE <<>>
        need1 == request.nut_free
        d1 == IF request.nut_free THEN [d EXCEPT !.contains_nuts_ = FALSE]
              ELSE d
        \* after the low_sugar block
        d2 == IF request.low_sugar
              THEN [d1 EXCEPT !.sweetness_level_ =
                                 Max(0, d1.sweetness_level_ - 3)]
              ELSE d1
        \* after the vegan block
        new3 == IF request.vegan
                THEN dessertVeganLoop(
                        dessertVeganSource(need1, <<>>, current_ingredients),
                        1, FALSE, FALSE, <<>>)
                ELSE new1
        need3 == need1 \/ request.vegan
    IN  IF need3 THEN [d2 EXCEPT !.ingredients_ = new3] ELSE d2

\* the virtual call d->dietaryAccommodations(request)
dietaryAccommodations(d, request) ==
    CASE d.kind = "APPETIZER" -> AppetizerDietaryAccommodations(d, request)
      [] d.kind = "MAINCOURSE" -> MainCourseDietaryAccommodations(d, request)
      [] d.kind = "DESSERT" -> DessertDietaryAccommodations(d, request)

\* the loop of dietaryAdjustment from slot i on
RECURSIVE adjustLoop(_, _, _)
adjustLoop(k, i, request) ==
    IF i >= getCurrentSize(k) THEN k
    ELSE LET p == k.items[i]
         IN  IF p \notin k.alive THEN [k EXCEPT !.ub = TRUE]
             ELSE adjustLoop([k EXCEPT !.heap[p] =
                                  dietaryAccommodations(k.heap[p], request)],
                             i + 1, request)

\* the loop run a second time over the adjusted dishes
dietaryAdjustment_twice(k, request) ==
    adjustLoop(adjustLoop(k, 0, request), 0, request)

\* Kitchen::dietaryAdjustment
dietaryAdjustment(k, request) == adjustLoop(k, 0, request)

----------------------------------------------------------------------------
(* Construction from a record source *)

\* the header line of a record source; it is read and dropped
Header == "Type,Name,Ingredients,PrepTime,Price,Cuisine,Attributes"
\* a well-formed appetizer record
GoodAppetizer == "APPETIZER,Soup,Leek;Potato,10,5.50,FRENCH,PLATED;2;true"
\* a well-formed main course record
GoodMainCourse == "MAINCOURSE,Curry,Chicken;Rice,75,14,INDIAN,BOILED;Chicken;false"
\* a well-formed dessert record
GoodDessert == "DESSERT,Sorbet,Lemon;Sugar,21,4.25,FRENCH,SOUR;4;false"
\* fewer than 7 comma-separated fields
ShortLine == "DESSERT,Sorbet,Lemon;Sugar"
\* a prep time that is no number
BadPrep == "APPETIZER,Soup,Leek;Potato,ten,5.50,FRENCH,PLATED;2;true"
\* a price that is no number
BadPrice == "DESSERT,Sorbet,Lemon;Sugar,21,free,FRENCH,SOUR;4;false"
\* a dish-kind tag that is none of the three
UnknownKind == "DRINK,Tea,Leaf,3,2,CHINESE,HOT;0;false"
\* fewer than 3 semicolon-separated trailing fields
ShortAttrs == "MAINCOURSE,Curry,Chicken;Rice,75,14,INDIAN,BOILED;Chicken"
\* a trailing field list that ends with its delimiter
EmptyLastAttr == "APPETIZER,Soup,Leek;Potato,10,5.50,FRENCH,PLATED;2;"

LoadLines ==
    {GoodAppetizer, GoodMainCourse, GoodDessert,
     ShortLine, BadPrep, BadPrice,
     UnknownKind, ShortAttrs, EmptyLastAttr}

\* the texts between the occurrences of the delimiter in str, as the
\* characters of the texts above give them; a text without the delimiter is
\* one piece and the empty text has none
Pieces(str, delimiter) ==
    CASE delimiter = "," /\ str = GoodAppetizer ->
           <<"APPETIZER", "Soup", "Leek;Potato", "10", "5.50", "FRENCH", "PLATED;2;true">>
      [] delimiter = "," /\ str = GoodMainCourse ->
           <<"MAINCOURSE", "Curry", "Chicken;Rice", "75", "14", "INDIAN", "BOILED;Chicken;false">>
      [] delimiter = "," /\ str = GoodDessert ->
           <<"DESSERT", "Sorbet", "Lemon;Sugar", "21", "4.25", "FRENCH", "SOUR;4;false">>
      [] delimiter = "," /\ str = ShortLine ->
           <<"DESSERT", "Sorbet", "Lemon;Sugar">>
      [] delimiter = "," /\ str = BadPrep ->
           <<"APPETIZER", "Soup", "Leek;Potato", "ten", "5.50", "FRENCH", "PLATED;2;true">>
      [] delimiter = "," /\ str = BadPrice ->
           <<"DESSERT", "Sorbet", "Lemon;Sugar", "21", "free", "FRENCH", "SOUR;4;false">>
      [] delimiter = "," /\ str = UnknownKind ->
           <<"DRINK", "Tea", "Leaf", "3", "2", "CHINESE", "HOT;0;false">>
      [] delimiter = "," /\ str = ShortAttrs ->
           <<"MAINCOURSE", "Curry", "Chicken;Rice", "75", "14", "INDIAN", "BOILED;Chicken">>
      [] delimiter = "," /\ str = EmptyLastAttr ->
           <<"APPETIZER", "Soup", "Leek;Potato", "10", "5.50", "FRENCH", "PLATED;2;">>
      [] delimiter = ";" /\ str = "BOILED;Chicken" ->
           <<"BOILED", "Chicken">>
      [] delimiter = ";" /\ str = "BOILED;Chicken;false" ->
           <<"BOILED", "Chicken", "false">>
      [] delimiter = ";" /\ str = "Chicken;Rice" ->
           <<"Chicken", "Rice">>
      [] delimiter = ";" /\ str = "HOT;0;false" ->
           <<"HOT", "0", "false">>
      [] delimiter = ";" /\ str = "Leek;Potato" ->
           <<"Leek", "Potato">>
      [] delimiter = ";" /\ str = "Lemon;Sugar" ->
           <<"Lemon", "Sugar">>
      [] delimiter = ";" /\ str = "PLATED;2;" ->
           <<"PLATED", "2", "">>
      [] delimiter = ";" /\ str = "PLATED;2;true" ->
           <<"PLATED", "2", "true">>
      [] delimiter = ";" /\ str = "SOUR;4;false" ->
           <<"SOUR", "4", "false">>
      [] OTHER -> IF str = "" THEN <<>> ELSE <<str>>

\* the characters of the texts handed to stoi and stod
Chars(str) ==
    CASE str = "" -> <<>>
      [] str = "0" -> <<"0">>
      [] str = "10" -> <<"1", "0">>
      [] str = "14" -> <<"1", "4">>
      [] str = "2" -> <<"2">>
      [] str = "21" -> <<"2", "1">>
      [] str = "3" -> <<"3">>
      [] str = "4" -> <<"4">>
      [] str = "4.25" -> <<"4", ".", "2", "5">>
      [] str = "5.50" -> <<"5", ".", "5", "0">>
      [] str = "7" -> <<"7">>
      [] str = "75" -> <<"7", "5">>
      [] str = "Chicken" -> <<"C", "h", "i", "c", "k", "e", "n">>
      [] str = "free" -> <<"f", "r", "e", "e">>
      [] str = "ten" -> <<"t", "e", "n">>
      [] str = "true" -> <<"t", "r", "u", "e">>

\* Kitchen::split : std::getline(ss, token, delimiter) yields the pieces in
\* turn and yields nothing for an empty piece at the very end of the text
split(str, delimiter) ==
    LET p == Pieces(str, delimiter)
    IN  IF p # <<>> /\ p[Len(p)] = "" THEN SubSeq(p, 1, Len(p) - 1) ELSE p

DigitValue ==
    [c \in {"0", "1", "2", "3", "4", "5", "6", "7", "8", "9"} |->
        CASE c = "0" -> 0 [] c = "1" -> 1 [] c = "2" -> 2 [] c = "3" -> 3
          [] c = "4" -> 4 [] c = "5" -> 5 [] c = "6" -> 6 [] c = "7" -> 7
          [] c = "8" -> 8 [] c = "9" -> 9]

\* the longest prefix of digits of the characters cs
RECURSIVE digitPrefix(_)
digitPrefix(cs) ==
    IF cs = <<>> \/ Head(cs) \notin DOMAIN DigitValue THEN <<>>
    ELSE <<Head(cs)>> \o digitPrefix(Tail(cs))

\* the number written by the digits ds
RECURSIVE digitsValue(_)
digitsValue(ds) ==
    IF ds = <<>> THEN 0
    ELSE 10 * digitsValue(SubSeq(ds, 1, Len(ds) - 1)) + DigitValue[ds[Len(ds)]]

\* std::stoi on an unsigned text: the leading digits are converted and the
\* rest is ignored; std::invalid_argument when there is no leading digit
stoi(str) ==
    LET ds == digitPrefix(Chars(str))
    IN  [throws |-> ds = <<>>, val |-> digitsValue(ds)]

\* std::stod on an unsigned text without exponent, the value in hundredths
stod(str) ==
    LET cs == Chars(str)
        ip == digitPrefix(cs)
        rest == SubSeq(cs, Len(ip) + 1, Len(cs))
        fp == IF rest # <<>> /\ Head(rest) = "." THEN digitPrefix(Tail(rest))
              ELSE <<>>
        f == fp \o <<"0", "0">>
    IN  [throws |-> ip = <<>> /\ fp = <<>>,
         val |-> 100 * digitsValue(ip) + 10 * DigitValue[f[1]] + DigitValue[f[2]]]

stringToServingStyle(str) ==
    IF str \in {"PLATED", "BUFFET", "FAMILY_STYLE"} THEN str ELSE "PLATED"

stringToCookingMethod(str) ==
    IF str \in {"GRILLED", "BAKED", "BOILED", "FRIED", "STEAMED", "RAW"}
    THEN str ELSE "GRILLED"

stringToFlavorProfile(str) ==
    IF str \in {"SWEET", "BITTER", "SOUR", "SALTY", "UMAMI"} THEN str
    ELSE "SWEET"

stringToCuisineType(str) ==
    IF str \in {"ITALIAN", "MEXICAN", "CHINESE", "INDIAN", "AMERICAN", "FRENCH"}
    THEN str ELSE "OTHER"

\* what a read past the end of a vector of texts can yield
GarbageTexts == {"", "true", "7"}

\* additional_attrs[i], an access that is not range-checked: the texts it
\* can yield
At(v, i) == IF i < Len(v) THEN {v[i + 1]} ELSE GarbageTexts

\* the kitchen after the access v[i]
Accessed(k, v, i) == IF i < Len(v) THEN k ELSE [k EXCEPT !.ub = TRUE]

\* dish = new ...(v); newOrder(dish): a refused dish stays allocated;
\* std::bad_alloc is a std::exception and ends the record like any other
ingest(k, v) ==
    IF Addrs \ k.alive = {} THEN k
    ELSE LET a == CHOOSE x \in Addrs \ k.alive :
                      \A y \in Addrs \ k.alive : x <= y
             k0 == [k EXCEPT !.heap[a] = v, !.alive = k.alive \cup {a}]
         IN  newOrder(k0, a).k

\* one turn of the constructor's loop: the kitchens it can leave
readRecord(k, line) ==
    LET tokens == split(line, ",") IN
    IF Len(tokens) < 7 THEN {k}
    ELSE
    LET dish_type == tokens[1]
        name == tokens[2]
        ingredients == split(tokens[3], ";")
        prep_time == stoi(tokens[4])
        price == stod(tokens[5])
        cuisine_type == stringToCuisineType(tokens[6])
        additional_attrs == split(tokens[7], ";")
        k0 == Accessed(k, additional_attrs, 0)
        k1 == Accessed(k0, additional_attrs, 1)
        k2 == Accessed(k1, additional_attrs, 2)
    IN  IF prep_time.throws \/ price.throws THEN {k}
        ELSE IF dish_type = "APPETIZER" THEN
            UNION {IF stoi(a1).throws THEN {k1}
                   ELSE {ingest(k2, Appetizer(name, ingredients, prep_time.val,
                                    price.val, cuisine_type,
                                    stringToServingStyle(a0), stoi(a1).val,
                                    a2 = "true")) :
                            a2 \in At(additional_attrs, 2)} :
                     a0 \in At(additional_attrs, 0),
                     a1 \in At(additional_attrs, 1)}
        ELSE IF dish_type = "MAINCOURSE" THEN
            {ingest(k2, MainCourse(name, ingredients, prep_time.val, price.val,
                                   cuisine_type, stringToCookingMethod(a0),
                                   a1, <<>>, a2 = "true")) :
                a0 \in At(additional_attrs, 0),
                a1 \in At(additional_attrs, 1),
                a2 \in At(additional_attrs, 2)}
        ELSE IF dish_type = "DESSERT" THEN
            UNION {IF stoi(a1).throws THEN {k1}
                   ELSE {ingest(k2, Dessert(name, ingredients, prep_time.val,
                                    price.val, cuisine_type,
                                    stringToFlavorProfile(a0), stoi(a1).val,
                                    a2 = "true")) :
                            a2 \in At(additional_attrs, 2)} :
                     a0 \in At(additional_attrs, 0),
                     a1 \in At(additional_attrs, 1)}
        ELSE {k}

\* the while loop over the lines that follow the header
RECURSIVE loadLoop(_, _)
loadLoop(k, lines) ==
    IF lines = <<>> THEN {k}
    ELSE UNION {loadLoop(k1, Tail(lines)) : k1 \in readRecord(k, Head(lines))}

\* Kitchen::Kitchen(filename) on the default-constructed kitchen k
KitchenFromFile(k, f) ==
    IF ~f.open \/ f.lines = <<>> THEN {k}
    ELSE loadLoop(k, Tail(f.lines))

\* the loop of the destructor from slot i on: delete items_[i]
RECURSIVE destructorLoop(_, _)
destructorLoop(k, i) ==
    IF i >= getCurrentSize(k) THEN k
    ELSE destructorLoop(delete(Touched(k, k.items[i]), k.items[i]), i + 1)

\* Kitchen::~Kitchen
destroyKitchen(k) == destructorLoop(k, 0)

----------------------------------------------------------------------------
(* Inputs of the dietary specification *)

\* all sequences over S of length at most n
RECURSIVE SeqsUpTo(_, _)
SeqsUpTo(S, n) ==
    IF n = 0 THEN {<<>>}
    ELSE LET shorter == SeqsUpTo(S, n - 1)
         IN  shorter \cup {Append(q, x) : q \in {r \in shorter : Len(r) = n - 1},
                                          x \in S}

AppetizerIngredients == {"Chicken", "Rice", "Shrimp", "Beef", "Flour"}
MainCourseIngredients == {"Chicken", "Beef", "Pork", "Milk", "Rice"}
DessertIngredients == {"Milk", "Sugar", "Eggs", "Almonds", "Butter"}
Levels == {1, 8}
SideDishChoices ==
    { <<>>,
      <<[name |-> "Rice", category |-> "GRAIN"],
        [name |-> "Greens", category |-> "SALAD"],
        [name |-> "Roll", category |-> "BREAD"]>>,
      <<[name |-> "Noodles", category |-> "PASTA"],
        [name |-> "Lentils", category |-> "LEGUME"],
        [name |-> "Fries", category |-> "STARCHES"],
        [name |-> "Broth", category |-> "SOUP"],
        [name |-> "Carrots", category |-> "VEGETABLE"]>> }

\* the dishes dietaryAccommodations is applied to
DietDishes ==
    {Appetizer("Starter", q, 10, 500, "OTHER", "PLATED", l, FALSE) :
        q \in SeqsUpTo(AppetizerIngredients, MaxLen), l \in Levels}
    \cup
    {MainCourse("Main", q, 40, 1500, "OTHER", "GRILLED", "Beef", sd, FALSE) :
        q \in SeqsUpTo(MainCourseIngredients, MaxLen), sd \in SideDishChoices}
    \cup
    {Dessert("Sweet", q, 20, 700, "OTHER", "SWEET", l, TRUE) :
        q \in SeqsUpTo(DessertIngredients, MaxLen), l \in Levels}

\* the dishes a sequence of dietaryAccommodations calls is applied to
SeqDishes ==
    {Appetizer("Starter", q, 10, 500, "OTHER", "PLATED", l, FALSE) :
        q \in SeqsUpTo(AppetizerIngredients, MaxSeqLen), l \in Levels}
    \cup
    {MainCourse("Main", q, 40, 1500, "OTHER", "GRILLED", "Beef", sd, FALSE) :
        q \in SeqsUpTo(MainCourseIngredients, MaxSeqLen),
        sd \in SideDishChoices}
    \cup
    {Dessert("Sweet", q, 20, 700, "OTHER", "SWEET", l, TRUE) :
        q \in SeqsUpTo(DessertIngredients, MaxSeqLen), l \in Levels}

----------------------------------------------------------------------------
(* Initial states *)

NoCall == [op |-> "none", arg |-> "", ret |-> FALSE]

\* Kitchen::Kitchen() : an empty bag, both counters zero, nothing allocated
InitKitchen ==
    \* 0 stands for the content of a slot that was never written
    /\ items_ = [i \in Slots |-> 0]
    /\ item_count_ = 0
    /\ total_prep_time_ = 0
    /\ count_elaborate_ = 0
    /\ heap = [a \in Addrs |-> NoDish]
    /\ alive = {}
    /\ ub = FALSE
    /\ last = NoCall

\* no record source, no dietaryAdjustment call yet
NoFile == [open |-> FALSE, lines |-> <<>>]
InitEnv == file = NoFile /\ adjusted = 0

Init ==
    /\ InitKitchen
    /\ probe = NoDish
    /\ probe0 = NoDish
    /\ applied = FALSE
    /\ InitEnv

\* an empty kitchen next to a dish the caller keeps
InitKitchenAndDish ==
    /\ InitKitchen
    /\ probe = CallerDish
    /\ probe0 = CallerDish
    /\ applied = FALSE
    /\ InitEnv

\* the record sources: one that cannot be opened, an empty one, and a
\* header followed by records
Files ==
    {NoFile, [open |-> TRUE, lines |-> <<>>]} \cup
    {[open |-> TRUE, lines |-> <<Header>> \o r] :
        r \in SeqsUpTo(LoadLines, MaxLines)}

\* a kitchen about to be constructed from a record source
InitLoad ==
    /\ InitKitchen
    /\ probe = NoDish
    /\ probe0 = NoDish
    /\ applied = FALSE
    /\ file \in Files
    /\ adjusted = 0

\* a caller either works on one dish of its own or on a kitchen
InitDishOrKitchen ==
    /\ InitKitchen
    /\ probe \in DietDishes \cup {CallerDish}
    /\ probe0 = probe
    /\ applied = FALSE
    /\ InitEnv

\* a dish constructed by a caller, outside any kitchen
InitDiet ==
    /\ InitKitchen
    /\ probe \in DietDishes
    /\ probe0 = probe
    /\ applied = FALSE
    /\ InitEnv

\* a dish constructed by a caller, about to go through several calls
InitDietSeq ==
    /\ InitKitchen
    /\ probe \in SeqDishes
    /\ probe0 = probe
    /\ applied = FALSE
    /\ InitEnv

----------------------------------------------------------------------------
(* Actions *)

\* the kitchen variables take the values of the kitchen value k
SetKitchen(k) ==
    /\ items_' = k.items
    /\ item_count_' = k.n
    /\ total_prep_time_' = k.total
    /\ count_elaborate_' = k.elab
    /\ heap' = k.heap
    /\ alive' = k.alive
    /\ ub' = k.ub

\* operator new: the allocator hands out the lowest free address (the
\* operations use an address only through pointer equality)
NewAddr == CHOOSE a \in Addrs \ alive : \A b \in Addrs \ alive : a <= b

\* a caller creates a dish with value v and hands it to newOrder; a caller
\* whose order is refused keeps ownership and destroys the dish
NewOrder ==
    /\ ~ub
    /\ \E v \in Menu :
         LET a == NewAddr
             k0 == [Kitchen EXCEPT !.heap[a] = v, !.alive = alive \cup {a}]
             r == newOrder(k0, a)
         IN  /\ SetKitchen(IF r.ret THEN r.k ELSE delete(r.k, a))
             /\ last' = [op |-> "newOrder", arg |-> v, ret |-> r.ret]
    /\ UNCHANGED <<dishVars, envVars>>

\* a caller passes a pointer to a dish of value v to serveDish
ServeDish ==
    /\ ~ub
    /\ \E v \in Menu :
         LET r == serveDish(Kitchen, v)
         IN  /\ SetKitchen(r.k)
             /\ last' = [op |-> "serveDish", arg |-> v, ret |-> r.ret]
    /\ UNCHANGED <<dishVars, envVars>>

ReleaseDishesBelowPrepTime ==
    /\ ~ub
    /\ \E t \in Thresholds :
         \E r \in releaseDishesBelowPrepTime(Kitchen, t) :
             /\ SetKitchen(r.k)
             /\ last' = [op |-> "releaseDishesBelowPrepTime", arg |-> t,
                         ret |-> r.ret]
    /\ UNCHANGED <<dishVars, envVars>>

ReleaseDishesOfCuisineType ==
    /\ ~ub
    /\ \E c \in Cuisines :
         \E r \in releaseDishesOfCuisineType(Kitchen, c) :
             /\ SetKitchen(r.k)
             /\ last' = [op |-> "releaseDishesOfCuisineType", arg |-> c,
                         ret |-> r.ret]
    /\ UNCHANGED <<dishVars, envVars>>

\* the dishes, thresholds and cuisines of the specification with
\* dietaryAdjustment
KitchenMenu == {d \in Menu : d.name_ \in {"Tacos", "Tiramisu"}}
KitchenThresholds == {t \in Thresholds : t >= 60}
KitchenCuisines == {"ITALIAN", "MEXICAN"}

NewOrderKitchen ==
    /\ ~ub
    /\ \E v \in KitchenMenu :
         LET a == NewAddr
             k0 == [Kitchen EXCEPT !.heap[a] = v, !.alive = alive \cup {a}]
             r == newOrder(k0, a)
         IN  /\ SetKitchen(IF r.ret THEN r.k ELSE delete(r.k, a))
             /\ last' = [op |-> "newOrder", arg |-> v, ret |-> r.ret]
    /\ UNCHANGED <<dishVars, envVars>>

ServeDishKitchen ==
    /\ ~ub
    /\ \E v \in KitchenMenu :
         LET r == serveDish(Kitchen, v)
         IN  /\ SetKitchen(r.k)
             /\ last' = [op |-> "serveDish", arg |-> v, ret |-> r.ret]
    /\ UNCHANGED <<dishVars, envVars>>

ReleaseBelowKitchen ==
    /\ ~ub
    /\ \E t \in KitchenThresholds :
         \E r \in releaseDishesBelowPrepTime(Kitchen, t) :
             /\ SetKitchen(r.k)
             /\ last' = [op |-> "releaseDishesBelowPrepTime", arg |-> t,
                         ret |-> r.ret]
    /\ UNCHANGED <<dishVars, envVars>>

ReleaseCuisineKitchen ==
    /\ ~ub
    /\ \E c \in KitchenCuisines :
         \E r \in releaseDishesOfCuisineType(Kitchen, c) :
             /\ SetKitchen(r.k)
             /\ last' = [op |-> "releaseDishesOfCuisineType", arg |-> c,
                         ret |-> r.ret]
    /\ UNCHANGED <<dishVars, envVars>>

\* a caller passes serveDish a dish equal to one the kitchen holds
ServeContained ==
    /\ ~ub
    /\ \E i \in 0..(item_count_ - 1) :
         LET v == heap[items_[i]]
             r == serveDish(Kitchen, v)
         IN  /\ SetKitchen(r.k)
             /\ last' = [op |-> "serveDish", arg |-> v, ret |-> r.ret]
    /\ UNCHANGED <<dishVars, envVars>>

\* the requests callers pass to dietaryAdjustment
KitchenRequests ==
    { [vegetarian |-> FALSE, vegan |-> TRUE, gluten_free |-> TRUE,
       nut_free |-> FALSE, low_sodium |-> FALSE, low_sugar |-> FALSE],
      [vegetarian |-> FALSE, vegan |-> FALSE, gluten_free |-> FALSE,
       nut_free |-> TRUE, low_sodium |-> TRUE, low_sugar |-> TRUE] }

\* a caller runs dietaryAdjustment, at most MaxAdjust times in a behaviour
DietaryAdjustment ==
    /\ ~ub
    /\ adjusted < MaxAdjust
    /\ \E request \in KitchenRequests :
         /\ SetKitchen(dietaryAdjustment(Kitchen, request))
         /\ last' = [op |-> "dietaryAdjustment", arg |-> request, ret |-> FALSE]
    /\ adjusted' = adjusted + 1
    /\ UNCHANGED <<dishVars, file>>

\* newOrder with a dish of the report menu
NewOrderReport ==
    /\ ~ub
    /\ \E v \in ReportMenu :
         LET a == NewAddr
             k0 == [Kitchen EXCEPT !.heap[a] = v, !.alive = alive \cup {a}]
             r == newOrder(k0, a)
         IN  /\ SetKitchen(IF r.ret THEN r.k ELSE delete(r.k, a))
             /\ last' = [op |-> "newOrder", arg |-> v, ret |-> r.ret]
    /\ UNCHANGED <<dishVars, envVars>>

\* serveDish with a dish of the report menu
ServeDishReport ==
    /\ ~ub
    /\ \E v \in ReportMenu :
         LET r == serveDish(Kitchen, v)
         IN  /\ SetKitchen(r.k)
             /\ last' = [op |-> "serveDish", arg |-> v, ret |-> r.ret]
    /\ UNCHANGED <<dishVars, envVars>>

\* Kitchen::Kitchen(filename), run once on the record source
LoadKitchen ==
    /\ ~ub
    /\ last = NoCall
    /\ \E k \in KitchenFromFile(Kitchen, file) :
         /\ SetKitchen(k)
         /\ last' = [op |-> "Kitchen", arg |-> "", ret |-> FALSE]
    /\ UNCHANGED <<dishVars, envVars>>

\* Kitchen::~Kitchen, at the end of the life of a constructed kitchen
DestroyKitchen ==
    /\ ~ub
    /\ last.op = "Kitchen"
    /\ SetKitchen(destroyKitchen(Kitchen))
    /\ last' = [op |-> "~Kitchen", arg |-> "", ret |-> FALSE]
    /\ UNCHANGED <<dishVars, envVars>>

\* a caller asks for the average; the kitchen is left as it is
CalculateAvgPrepTime ==
    /\ ~ub
    /\ last' = [op |-> "calculateAvgPrepTime", arg |-> "",
                ret |-> calculateAvgPrepTime(Kitchen)]
    /\ UNCHANGED <<items_, item_count_, total_prep_time_, count_elaborate_,
                   heap, alive, ub, probe, probe0, applied, envVars>>

\* a caller asks for the elaborate percentage
CalculateElaboratePercentage ==
    /\ ~ub
    /\ last' = [op |-> "calculateElaboratePercentage", arg |-> "",
                ret |-> calculateElaboratePercentage(Kitchen)]
    /\ UNCHANGED <<items_, item_count_, total_prep_time_, count_elaborate_,
                   heap, alive, ub, probe, probe0, applied, envVars>>

\* one call probe.dietaryAccommodations(request)
Accommodate ==
    /\ ~applied
    /\ \E request \in Requests :
         /\ probe' = dietaryAccommodations(probe, request)
         /\ last' = [op |-> "dietaryAccommodations", arg |-> request,
                     ret |-> FALSE]
    /\ applied' = TRUE
    /\ UNCHANGED <<items_, item_count_, total_prep_time_, count_elaborate_,
                   heap, alive, ub, probe0, envVars>>

\* one more call probe.dietaryAccommodations(request); probe0 keeps the dish
\* as it was before this call
AccommodateNext ==
    /\ \E request \in Requests :
         /\ probe' = dietaryAccommodations(probe, request)
         /\ last' = [op |-> "dietaryAccommodations", arg |-> request,
                     ret |-> FALSE]
    /\ probe0' = probe
    /\ applied' = TRUE
    /\ UNCHANGED <<items_, item_count_, total_prep_time_, count_elaborate_,
                   heap, alive, ub, envVars>>

\* the call just made is made again with the same request; probe0 keeps
\* the dish as the first call left it
AccommodateAgain ==
    /\ applied
    /\ last.op = "dietaryAccommodations"
    /\ probe' = dietaryAccommodations(probe, last.arg)
    /\ probe0' = probe
    /\ last' = [op |-> "dietaryAccommodations again", arg |-> last.arg,
                ret |-> FALSE]
    /\ UNCHANGED <<items_, item_count_, total_prep_time_, count_elaborate_,
                   heap, alive, ub, applied, envVars>>

----------------------------------------------------------------------------
(* Specifications *)

\* newOrder and serveDish only
NextOrders == NewOrder \/ ServeDish
SpecOrders == Init /\ [][NextOrders]_vars

\* newOrder, serveDish and the two release operations
NextRelease ==
    \/ NewOrder
    \/ ServeDish
    \/ ReleaseDishesBelowPrepTime
    \/ ReleaseDishesOfCuisineType
SpecRelease == Init /\ [][NextRelease]_vars

\* dietaryAccommodations on a single dish
NextDiet == Accommodate
SpecDiet == InitDiet /\ [][NextDiet]_vars

\* dietaryAccommodations twice with the same request
NextDietTwice ==
    \/ Accommodate
    \/ AccommodateAgain
SpecDietTwice == InitDiet /\ [][NextDietTwice]_vars

\* any sequence of dietaryAccommodations calls on a single dish
NextDietSeq == AccommodateNext
SpecDietSeq == InitDietSeq /\ [][NextDietSeq]_vars

\* newOrder and serveDish over the report menu, and the two queries
NextReport ==
    \/ NewOrderReport
    \/ ServeDishReport
    \/ CalculateAvgPrepTime
    \/ CalculateElaboratePercentage
SpecReport == Init /\ [][NextReport]_vars

\* every operation that changes a kitchen
NextKitchen ==
    \/ NewOrderKitchen
    \/ ServeDishKitchen
    \/ ReleaseBelowKitchen
    \/ ReleaseCuisineKitchen
    \/ DietaryAdjustment
SpecKitchen == InitKitchenAndDish /\ [][NextKitchen]_vars

\* newOrder, serveDish and dietaryAdjustment
NextAdjust ==
    \/ NewOrderKitchen
    \/ ServeDishKitchen
    \/ ServeContained
    \/ DietaryAdjustment
SpecAdjust == InitKitchenAndDish /\ [][NextAdjust]_vars

\* the caller with a dish of its own calls dietaryAccommodations on it
AccommodateOwnDish == probe0 # CallerDish /\ Accommodate
\* the caller with a kitchen runs one of the operations that change it
KitchenOperation == probe0 = CallerDish /\ (NextKitchen \/ ServeContained)

\* dietaryAccommodations on single dishes, and kitchens under every
\* operation that changes them
NextDishOrKitchen ==
    \/ AccommodateOwnDish
    \/ KitchenOperation
SpecDishOrKitchen == InitDishOrKitchen /\ [][NextDishOrKitchen]_vars

\* construction from a record source, and destruction
NextLoad ==
    \/ LoadKitchen
    \/ DestroyKitchen
SpecLoad == InitLoad /\ [][NextLoad]_vars

Next == NextRelease
Spec == Init /\ [][Next]_vars

----------------------------------------------------------------------------
(* State functions used by the properties *)

\* the dish stored in slot i
DishAt(i) == heap[items_[i]]

IsElaborate(d) == Len(d.ingredients_) >= 5 /\ d.prep_time_ >= 60

\* sum of prep_time over the slots [0, n)
RECURSIVE PrepSum(_)
PrepSum(n) == IF n = 0 THEN 0 ELSE PrepSum(n - 1) + DishAt(n - 1).prep_time_

ElaborateSlots == {i \in 0..(item_count_ - 1) : IsElaborate(DishAt(i))}

\* the slots holding a dish equal to v, and the lowest of them
SlotsEqual(v) == {i \in 0..(item_count_ - 1) : DishAt(i) = v}
LowestEqual(v) == CHOOSE i \in SlotsEqual(v) : \A j \in SlotsEqual(v) : i <= j

\* the addresses stored in the bag
Contained == {items_[i] : i \in 0..(item_count_ - 1)}

----------------------------------------------------------------------------
(* C1 - C5 : newOrder and serveDish *)

\* C1: after any sequence of newOrder and serveDish calls, total_prep_time_
\* is the sum of prep_time over the dishes stored in slots [0, current_size).
C1_TotalPrepTime == total_prep_time_ = PrepSum(item_count_)

\* a dish was served while others stay, and the sum is not zero
C1_Witness ==
    /\ last.op = "serveDish" /\ last.ret
    /\ item_count_ >= 2
    /\ total_prep_time_ = PrepSum(item_count_)
    /\ total_prep_time_ > 0

\* C2: after any sequence of newOrder and serveDish calls, count_elaborate_
\* is the number of contained dishes with at least 5 ingredients and
\* prep_time of at least 60.
C2_ElaborateCount == count_elaborate_ = Cardinality(ElaborateSlots)

\* an elaborate dish was served, another elaborate one and a plain one stay
C2_Witness ==
    /\ last.op = "serveDish" /\ last.ret /\ IsElaborate(last.arg)
    /\ count_elaborate_ = 1
    /\ item_count_ = 2

\* C3: newOrder on a full kitchen returns false and leaves current_size, the
\* stored dishes, total_prep_time_ and count_elaborate_ unchanged.
C3_FullNewOrder ==
    [][ (item_count_ = Capacity /\ last'.op = "newOrder")
        => /\ last'.ret = FALSE
           /\ item_count_' = Capacity
           /\ items_' = items_
           /\ \A i \in 0..(item_count_ - 1) : DishAt(i)' = DishAt(i)
           /\ Contained \subseteq alive'
           /\ total_prep_time_' = total_prep_time_
           /\ count_elaborate_' = count_elaborate_ ]_vars

\* an order was refused by a full kitchen
C3_Witness ==
    /\ last.op = "newOrder" /\ last.ret = FALSE
    /\ item_count_ = Capacity

\* C4: serveDish(d) with a contained dish equal to d returns true and, in
\* one step, removes the dish at the lowest index equal to d, moves the last
\* element into that index, decreases current_size by 1, the number of
\* dishes equal to d by 1, total_prep_time_ by the removed dish's prep_time,
\* and count_elaborate_ by 1 exactly when the removed dish was elaborate.
C4_ServeFound ==
    [][ (last'.op = "serveDish" /\ SlotsEqual(last'.arg) # {})
        => LET d == last'.arg
               i == LowestEqual(d)
               removed == DishAt(i)
           IN  /\ last'.ret = TRUE
               /\ items_' = [items_ EXCEPT ![i] = items_[item_count_ - 1]]
               /\ item_count_' = item_count_ - 1
               /\ alive' = alive \ {items_[i]}
               /\ Cardinality({j \in 0..(item_count_' - 1) :
                                   heap'[items_'[j]] = d})
                    = Cardinality(SlotsEqual(d)) - 1
               /\ total_prep_time_' = total_prep_time_ - removed.prep_time_
               /\ count_elaborate_' =
                    count_elaborate_ - (IF IsElaborate(removed) THEN 1 ELSE 0)
      ]_vars

\* a dish was served from a slot that was not the last one (the last element
\* now sits in two slots: its new one and the stale one at current_size),
\* and another dish equal to the argument is still contained
C4_Witness ==
    /\ last.op = "serveDish" /\ last.ret
    /\ item_count_ < Capacity
    /\ \E i \in 0..(item_count_ - 1) : items_[i] = items_[item_count_]
    /\ SlotsEqual(last.arg) # {}

\* C5: serveDish(d) on an empty kitchen or one with no dish equal to d
\* returns false, changes neither current_size, the stored dishes,
\* total_prep_time_ nor count_elaborate_, and destroys no dish.
C5_ServeNotFound ==
    [][ (last'.op = "serveDish" /\ SlotsEqual(last'.arg) = {})
        => /\ last'.ret = FALSE
           /\ UNCHANGED <<items_, item_count_, total_prep_time_,
                          count_elaborate_, heap, alive>> ]_vars

\* a dish that is not contained was asked of a kitchen that holds others
C5_Witness ==
    /\ last.op = "serveDish" /\ last.ret = FALSE
    /\ item_count_ >= 1
    /\ SlotsEqual(last.arg) = {}

----------------------------------------------------------------------------
(* C6 - C8 : the release operations *)

\* the contained addresses whose dish has the cuisine type c / a prep_time
\* below t
OfCuisine(c) == {p \in Contained : heap[p].cuisine_type_ = c}
BelowPrep(t) == {p \in Contained : heap[p].prep_time_ < t}

\* C6: releaseDishesOfCuisineType(c) removes exactly the contained dishes of
\* cuisine type c (afterwards none is contained and every dish of another
\* cuisine still is) and returns the number of dishes of cuisine c that were
\* contained before the call.
C6_ReleaseCuisineExact ==
    [][ (last'.op = "releaseDishesOfCuisineType")
        => LET c == last'.arg IN
           /\ {items_'[i] : i \in 0..(item_count_' - 1)}
                 = Contained \ OfCuisine(c)
           /\ \A p \in Contained \ OfCuisine(c) :
                 p \in alive' /\ heap'[p] = heap[p]
           /\ last'.ret = Cardinality(OfCuisine(c)) ]_vars

\* C7: releaseDishesBelowPrepTime(t) serves every contained dish with
\* prep_time < t, none twice and none skipped: afterwards no contained dish
\* has prep_time < t, every contained dish with prep_time >= t is still
\* contained, and the value returned is the number of dishes with
\* prep_time < t that were contained before the call.
C7_ReleaseBelowExact ==
    [][ (last'.op = "releaseDishesBelowPrepTime")
        => LET t == last'.arg IN
           /\ {items_'[i] : i \in 0..(item_count_' - 1)}
                 = Contained \ BelowPrep(t)
           /\ \A p \in Contained \ BelowPrep(t) :
                 p \in alive' /\ heap'[p] = heap[p]
           /\ last'.ret = Cardinality(BelowPrep(t)) ]_vars

\* C8: after a call of releaseDishesOfCuisineType or
\* releaseDishesBelowPrepTime, total_prep_time_ is the sum of prep_time of
\* the remaining dishes, count_elaborate_ the number of remaining elaborate
\* dishes, and the value returned the decrease of current_size.
C8_ReleaseBookkeeping ==
    [][ (last'.op \in {"releaseDishesOfCuisineType",
                       "releaseDishesBelowPrepTime"})
        => /\ total_prep_time_' = PrepSum(item_count_)'
           /\ count_elaborate_' = Cardinality(ElaborateSlots')
           /\ last'.ret = item_count_ - item_count_' ]_vars

----------------------------------------------------------------------------
(* C9, C10 : bounded substitution *)

\* number of elements of F among the first i elements of q
RECURSIVE Rank(_, _, _)
Rank(q, F, i) ==
    IF i = 0 THEN 0
    ELSE Rank(q, F, i - 1) + (IF q[i] \in F THEN 1 ELSE 0)

\* what the element at position i of q turns into: the first element of F
\* into r1, the second into r2, later ones into nothing, others into
\* themselves
Image(q, F, r1, r2, i) ==
    IF q[i] \notin F THEN <<q[i]>>
    ELSE IF Rank(q, F, i) = 1 THEN <<r1>>
    ELSE IF Rank(q, F, i) = 2 THEN <<r2>>
    ELSE <<>>

\* bounded substitution of the first i elements of q
RECURSIVE BoundedSubstitution(_, _, _, _, _)
BoundedSubstitution(q, F, r1, r2, i) ==
    IF i = 0 THEN <<>>
    ELSE BoundedSubstitution(q, F, r1, r2, i - 1) \o Image(q, F, r1, r2, i)

NonVegetarianSet ==
    {"Meat", "Chicken", "Fish", "Beef", "Pork", "Lamb", "Shrimp", "Bacon"}
DairyEggSet == {"Milk", "Eggs", "Cheese", "Butter", "Cream", "Yogurt"}
NutSet == {"Almonds", "Walnuts", "Pecans", "Hazelnuts", "Peanuts", "Cashews",
           "Pistachios"}

\* q without the elements of F
Without(q, F) == SelectSeq(q, LAMBDA x : x \notin F)

----------------------------------------------------------------------------
(* C11, C12, C14, C19 : one dietaryAccommodations call *)

\* C11: for a MainCourse the ingredients after the call are the original
\* ones passed through the vegetarian bounded substitution (Beans,
\* Mushrooms, then drop) when vegetarian is set and then through the removal
\* of every dairy/egg ingredient when vegan is set; protein_type is "Tofu"
\* when vegetarian or vegan is set and unchanged otherwise.
C11_MainCourseIngredients ==
    (applied /\ probe0.kind = "MAINCOURSE")
    => LET q0 == probe0.ingredients_
           q1 == IF last.arg.vegetarian
                 THEN BoundedSubstitution(q0, NonVegetarianSet, "Beans",
                                          "Mushrooms", Len(q0))
                 ELSE q0
           q2 == IF last.arg.vegan THEN Without(q1, DairyEggSet) ELSE q1
       IN  /\ probe.ingredients_ = q2
           /\ probe.protein_type_ =
                 IF last.arg.vegetarian \/ last.arg.vegan
                 THEN "Tofu" ELSE probe0.protein_type_

\* vegetarian and vegan on [Chicken, Milk, Beef, Pork]: [Beans, Mushrooms]
C11_Witness ==
    /\ applied /\ probe0.kind = "MAINCOURSE"
    /\ last.arg.vegetarian /\ last.arg.vegan
    /\ probe0.ingredients_ = <<"Chicken", "Milk", "Beef", "Pork">>
    /\ probe.ingredients_ = <<"Beans", "Mushrooms">>
    /\ probe0.protein_type_ = "Beef" /\ probe.protein_type_ = "Tofu"

\* the side dish categories that are none of Grain, Pasta, Bread, Starches
GlutenFreeCategories == {"LEGUME", "SALAD", "SOUP", "VEGETABLE"}

\* C12: for a MainCourse a call with gluten_free set makes gluten_free true
\* and removes exactly the side dishes of category Grain, Pasta, Bread or
\* Starches, the others keeping their order; with only gluten_free set the
\* ingredients and protein_type are unchanged.
C12_MainCourseGlutenFree ==
    (applied /\ probe0.kind = "MAINCOURSE" /\ last.arg.gluten_free)
    => /\ probe.gluten_free_ = TRUE
       /\ probe.side_dishes_ =
             SelectSeq(probe0.side_dishes_,
                       LAMBDA sd : sd.category \in GlutenFreeCategories)
       /\ (~last.arg.vegetarian /\ ~last.arg.vegan)
             => /\ probe.ingredients_ = probe0.ingredients_
                /\ probe.protein_type_ = probe0.protein_type_

\* Noodles and Fries have gone, Lentils, Broth and Carrots stay in order
C12_Witness ==
    /\ applied /\ probe0.kind = "MAINCOURSE" /\ last.arg.gluten_free
    /\ ~last.arg.vegetarian /\ ~last.arg.vegan
    /\ probe0.gluten_free_ = FALSE /\ probe.gluten_free_ = TRUE
    /\ Len(probe0.side_dishes_) = 5
    /\ probe.side_dishes_ = <<[name |-> "Lentils", category |-> "LEGUME"],
                              [name |-> "Broth", category |-> "SOUP"],
                              [name |-> "Carrots", category |-> "VEGETABLE"]>>
    /\ probe0.ingredients_ = <<"Chicken", "Milk">>

\* the request sets none of the flags a, b, c
SetsNone(request, a, b, c) == ~request[a] /\ ~request[b] /\ ~request[c]

\* C14: a call in which only flags without a rule for the dish's variant are
\* set (among them the request with all flags false) leaves the dish
\* unchanged.
C14_NoRuleNoChange ==
    applied =>
       /\ (probe0.kind = "APPETIZER"
           /\ SetsNone(last.arg, "vegetarian", "low_sodium", "gluten_free"))
          => probe = probe0
       /\ (probe0.kind = "MAINCOURSE"
           /\ SetsNone(last.arg, "vegetarian", "vegan", "gluten_free"))
          => probe = probe0
       /\ (probe0.kind = "DESSERT"
           /\ SetsNone(last.arg, "nut_free", "low_sugar", "vegan"))
          => probe = probe0

\* a Dessert with nuts and dairy went through a call with vegetarian,
\* gluten_free and low_sodium set
C14_Witness ==
    /\ applied /\ probe0.kind = "DESSERT"
    /\ last.arg.vegetarian /\ last.arg.gluten_free /\ last.arg.low_sodium
    /\ SetsNone(last.arg, "nut_free", "low_sugar", "vegan")
    /\ probe0.ingredients_ = <<"Milk", "Almonds", "Eggs">>
    /\ probe = probe0

\* C19: for a Dessert a call with vegan set and nut_free not set rewrites
\* the ingredients by bounded substitution over the dairy/egg names: the
\* first match becomes "Almond Milk", the second "Flax Egg", further ones
\* are dropped, the others keep their order; contains_nuts is unchanged.
C19_DessertVegan ==
    (applied /\ probe0.kind = "DESSERT" /\ last.arg.vegan
             /\ ~last.arg.nut_free)
    => /\ probe.ingredients_ =
             BoundedSubstitution(probe0.ingredients_, DairyEggSet,
                                 "Almond Milk", "Flax Egg",
                                 Len(probe0.ingredients_))
       /\ probe.contains_nuts_ = probe0.contains_nuts_

\* [Milk, Almonds, Eggs, Butter] has become [Almond Milk, Almonds, Flax Egg]
C19_Witness ==
    /\ applied /\ probe0.kind = "DESSERT" /\ last.arg.vegan
    /\ ~last.arg.nut_free
    /\ probe0.ingredients_ = <<"Milk", "Almonds", "Eggs", "Butter">>
    /\ probe.ingredients_ = <<"Almond Milk", "Almonds", "Flax Egg">>
    /\ probe.contains_nuts_ = TRUE

----------------------------------------------------------------------------
(* C13 : the levels *)

\* C13: a low_sodium request sets an Appetizer's spiciness_level to
\* max(0, spiciness_level - 2), a low_sugar request a Dessert's
\* sweetness_level to max(0, sweetness_level - 3), and no sequence of calls
\* makes either level negative.
C13_Levels ==
    /\ probe.spiciness_level_ >= 0
    /\ probe.sweetness_level_ >= 0
    /\ (applied /\ probe0.kind = "APPETIZER" /\ last.arg.low_sodium)
       => probe.spiciness_level_ =
             IF probe0.spiciness_level_ >= 2
             THEN probe0.spiciness_level_ - 2 ELSE 0
    /\ (applied /\ probe0.kind = "DESSERT" /\ last.arg.low_sugar)
       => probe.sweetness_level_ =
             IF probe0.sweetness_level_ >= 3
             THEN probe0.sweetness_level_ - 3 ELSE 0

\* a Dessert that had come down to sweetness 2 went through low_sugar again
C13_Witness ==
    /\ applied /\ probe0.kind = "DESSERT" /\ last.arg.low_sugar
    /\ probe0.sweetness_level_ = 2
    /\ probe.sweetness_level_ = 0

----------------------------------------------------------------------------
(* C15, C16 : the queries *)

\* r is the integer nearest to a / n, the upper one of two nearest
Nearest(r, a, n) == 2 * n * r - n <= 2 * a /\ 2 * a < 2 * n * r + n

\* C15: calculateAvgPrepTime returns 0 for an empty kitchen and otherwise
\* the sum of prep_time of the contained dishes divided by current_size,
\* rounded to the nearest integer, halves up; 17 for [10, 20, 21].
C15_AvgPrepTime ==
    last.op = "calculateAvgPrepTime"
    => IF item_count_ = 0 THEN last.ret = 0
       ELSE Nearest(last.ret, PrepSum(item_count_), item_count_)

\* the kitchen holds dishes of prep_time 10, 20 and 21 and the answer was 17
C15_Witness ==
    /\ last.op = "calculateAvgPrepTime" /\ last.ret = 17
    /\ item_count_ = 3
    /\ {DishAt(i).prep_time_ : i \in 0..2} = {10, 20, 21}

\* C16: calculateElaboratePercentage returns 0 when the kitchen is empty or
\* count_elaborate_ is 0, and otherwise 100 * count_elaborate_ /
\* current_size rounded to two decimals, that is
\* round(10000 * count_elaborate_ / current_size) hundredths of a percent.
C16_ElaboratePercentage ==
    last.op = "calculateElaboratePercentage"
    => IF item_count_ = 0 \/ count_elaborate_ = 0 THEN last.ret = 0
       ELSE Nearest(last.ret, 10000 * count_elaborate_, item_count_)

\* two of three dishes are elaborate: 66.67
C16_Witness ==
    /\ last.op = "calculateElaboratePercentage" /\ last.ret = 6667
    /\ item_count_ = 3 /\ count_elaborate_ = 2

----------------------------------------------------------------------------
(* C17 : dietaryAdjustment *)

\* C17: dietaryAdjustment(request) applies dietaryAccommodations(request)
\* exactly once to every dish in the slots [0, current_size) and to no
\* other dish, and leaves current_size, the contained dish identities, each
\* dish's prep_time and cuisine_type, and total_prep_time_ unchanged.
C17_DietaryAdjustment ==
    [][last'.op = "dietaryAdjustment" =>
        /\ item_count_' = item_count_
        /\ items_' = items_
        /\ alive' = alive
        /\ total_prep_time_' = total_prep_time_
        /\ \A i \in 0..(item_count_ - 1) :
              /\ heap'[items_[i]] =
                     dietaryAccommodations(heap[items_[i]], last'.arg)
              /\ heap'[items_[i]].prep_time_ = heap[items_[i]].prep_time_
              /\ heap'[items_[i]].cuisine_type_ = heap[items_[i]].cuisine_type_
        /\ \A a \in Addrs \ {items_[i] : i \in 0..(item_count_ - 1)} :
              heap'[a] = heap[a]
        /\ probe' = probe]_vars

\* a low-sugar adjustment of a kitchen of at least two dishes has lowered
\* the sweetness of a Tiramisu from 8 to 5, next to the caller's own dish
C17_Witness ==
    /\ last.op = "dietaryAdjustment" /\ last.arg.low_sugar
    /\ item_count_ >= 2
    /\ \E i \in 0..(item_count_ - 1) :
          DishAt(i).name_ = "Tiramisu" /\ DishAt(i).sweetness_level_ = 5
    /\ probe = CallerDish

----------------------------------------------------------------------------
(* C20 : the structure of the bag *)

\* C20: in every state reachable by newOrder, serveDish, the two release
\* operations and dietaryAdjustment, 0 <= current_size <= capacity, the
\* slots [0, current_size) hold live dishes, no dish identity appears in two
\* of them, and no live dish of the kitchen lies outside them (every dish is
\* handed to newOrder once, by the caller that created it).
C20_Structure ==
    /\ item_count_ >= 0
    /\ item_count_ <= Capacity
    /\ \A i \in 0..(item_count_ - 1) : items_[i] \in alive
    /\ \A i, j \in 0..(item_count_ - 1) : items_[i] = items_[j] => i = j
    /\ alive = {items_[i] : i \in 0..(item_count_ - 1)}

\* a kitchen that was full, was adjusted, and then had a dish released from
\* a slot other than the last
C20_Witness ==
    /\ adjusted > 0
    /\ last.op \in {"releaseDishesBelowPrepTime", "releaseDishesOfCuisineType"}
    /\ last.ret >= 1
    /\ item_count_ >= 1
    /\ items_[Capacity - 1] \in Addrs

----------------------------------------------------------------------------
(* C18 : construction from a record source *)

WellFormed(line) == line \in {GoodAppetizer, GoodMainCourse, GoodDessert}

\* the name written in a well-formed record
RecordName(line) ==
    CASE line = GoodAppetizer -> "Soup"
      [] line = GoodMainCourse -> "Curry"
      [] line = GoodDessert -> "Sorbet"

\* the records of the source: the lines after the header
Records == IF file.lines = <<>> THEN <<>> ELSE Tail(file.lines)

\* C18: during construction from a record source every malformed or short
\* record (fewer than 7 fields, a non-numeric prep time or price, an unknown
\* dish kind, fewer than 3 trailing fields) is skipped without adding a dish
\* and without an out-of-range access, and every later well-formed record is
\* still ingested: the kitchen holds the well-formed records, in order, as
\* far as the capacity goes.
C18_MalformedSkipped ==
    last.op = "Kitchen" =>
        LET good == SelectSeq(Records, WellFormed)
            kept == IF Len(good) <= Capacity THEN Len(good) ELSE Capacity
        IN  /\ ~ub
            /\ item_count_ = kept
            /\ \A i \in 1..kept : DishAt(i - 1).name_ = RecordName(good[i])

----------------------------------------------------------------------------
(* C21, C22 : the elaborate count and dietaryAdjustment *)

\* C21: after any sequence of newOrder, serveDish and dietaryAdjustment
\* calls, count_elaborate_ is the number of contained dishes with at least
\* 5 ingredients and prep_time of at least 60, also when dietaryAdjustment
\* has shortened ingredient lists.
C21_ElaborateInStep ==
    count_elaborate_ =
        Cardinality({i \in 0..(item_count_ - 1) :
                        /\ Len(DishAt(i).ingredients_) >= 5
                        /\ DishAt(i).prep_time_ >= 60})

\* C22: in every state reachable by newOrder, serveDish, the release
\* operations and dietaryAdjustment, count_elaborate_ <= current_size, so
\* that calculateElaboratePercentage returns between 0 and 100 percent
\* (0 and 10000 hundredths).
C22_PercentageInRange ==
    /\ count_elaborate_ <= item_count_
    /\ calculateElaboratePercentage(Kitchen) >= 0
    /\ calculateElaboratePercentage(Kitchen) <= 10000

----------------------------------------------------------------------------
(* C25 : the elaborate count as an upper bound *)

\* C25: dietaryAccommodations never lengthens a dish's ingredient list and
\* never changes its prep_time, for every variant and request; and in every
\* state reachable by newOrder, serveDish, the release operations and
\* dietaryAdjustment, count_elaborate_ is non-negative and at least the
\* number of contained elaborate dishes.
C25_CountIsUpperBound ==
    /\ applied => /\ Len(probe.ingredients_) <= Len(probe0.ingredients_)
                  /\ probe.prep_time_ = probe0.prep_time_
    /\ count_elaborate_ >= 0
    /\ count_elaborate_ >= Cardinality(ElaborateSlots)

\* a dish counted as elaborate was shortened by dietaryAdjustment and then
\* served: the count is above the number of elaborate dishes
C25_Witness ==
    /\ adjusted > 0
    /\ last.op = "serveDish" /\ last.ret
    /\ Len(last.arg.ingredients_) < 5 /\ last.arg.prep_time_ >= 60
    /\ count_elaborate_ > Cardinality(ElaborateSlots)

----------------------------------------------------------------------------
(* C23 : the reads of releaseDishesBelowPrepTime *)

\* C23: during releaseDishesBelowPrepTime, for every kitchen content, also
\* with value-equal dishes, every dish the loop dereferences has not been
\* destroyed by an earlier serveDish of the same call (the slot it is read
\* from lies below the current size).
C23_ReadsLiveDishes ==
    last.op = "releaseDishesBelowPrepTime" => ~ub

----------------------------------------------------------------------------
(* C24 : more records than the bag holds *)

\* C24: when the record source holds more well-formed records than the bag
\* capacity, construction adds the first capacity-many of them in file
\* order, and every dish created for a later record is contained in the
\* kitchen or destroyed: after construction the live dishes are those of the
\* slots, and after the destructor none is left.
C24_NoDishLeftUnowned ==
    LET good == SelectSeq(Records, WellFormed) IN
    Len(good) > Capacity =>
        /\ last.op = "Kitchen" =>
              /\ item_count_ = Capacity
              /\ \A i \in 1..Capacity :
                    DishAt(i - 1).name_ = RecordName(good[i])
              /\ alive = {items_[i] : i \in 0..(item_count_ - 1)}
        /\ last.op = "~Kitchen" => alive = {}

----------------------------------------------------------------------------
(* C26 : the same request twice *)

\* C26: for every variant, ingredient list and request, a second
\* dietaryAccommodations call with the same request leaves the ingredient
\* list, vegetarian, gluten_free, contains_nuts, protein_type and the side
\* dishes as the first call left them; only the two levels may differ.
C26_SecondCallKeeps ==
    last.op = "dietaryAccommodations again" =>
        /\ probe.ingredients_ = probe0.ingredients_
        /\ probe.vegetarian_ = probe0.vegetarian_
        /\ probe.gluten_free_ = probe0.gluten_free_
        /\ probe.contains_nuts_ = probe0.contains_nuts_
        /\ probe.protein_type_ = probe0.protein_type_
        /\ probe.side_dishes_ = probe0.side_dishes_

\* the second call of a vegan, low-sugar request on a dessert: the first
\* call has put substitutes into the list, the second lowers the sweetness
\* again and changes nothing else
C26_Witness ==
    /\ last.op = "dietaryAccommodations again"
    /\ last.arg.vegan /\ last.arg.low_sugar /\ ~last.arg.nut_free
    /\ probe.kind = "DESSERT"
    /\ probe.sweetness_level_ < probe0.sweetness_level_
    /\ \E i \in 1..Len(probe.ingredients_) :
          probe.ingredients_[i] \notin DessertIngredients

====
